---- MODULE Spec2Model ----
(***************************************************************************)
(* Command-line front end of the agent-management tool: the argv helpers,  *)
(* the route-first dispatcher (tryRouteCli), the pre-action hook of the    *)
(* full command framework, and the memory commands (status, index,         *)
(* search).                                                                *)
(*                                                                         *)
(* Spec       one process invocation: tryRouteCli(argv), and, when it      *)
(*            returns false, the command framework's pre-action hook.      *)
(* SpecMemory one run of a memory command over its list of agents.         *)
(***************************************************************************)
EXTENDS Naturals, Sequences, FiniteSets

(***************************************************************************)
(* Bounds.                                                                 *)
(***************************************************************************)

\* Tokens of argv that follow the command words.
MaxRest == 2

\* Entries of cfg.agents.list.
MaxAgents == 2

(***************************************************************************)
(* JavaScript values that cross the interfaces modelled here.              *)
(***************************************************************************)

Undefined == [t |-> "undefined"]

Null == [t |-> "null"]

Str(s) == [t |-> "string", s |-> s]

Num(n) == [t |-> "number", n |-> n]

(***************************************************************************)
(* Tokens of the argument vector.  A token is a string; what the helpers   *)
(* ask of one is whether it begins with "-", whether it is a given flag    *)
(* name, and whether it begins with a flag name followed by "=".  A token  *)
(* is kept as its text up to the first "=" (n) and, when it has an "=",    *)
(* the text after it (v).                                                  *)
(***************************************************************************)

Word(w) == [k |-> "word", n |-> w, v |-> ""]

Flag(f) == [k |-> "flag", n |-> f, v |-> ""]

FlagEq(f, val) == [k |-> "eq", n |-> f, v |-> val]

Terminator == Flag("--")

StartsWithDash(tok) == tok.k \in {"flag", "eq"}

Launcher == Word("node")

Program == Word("clawdbot")

\* The command words an invocation begins with (argv[2..]).
Commands ==
    { <<>>,
      <<Word("health")>>, <<Word("status")>>, <<Word("sessions")>>,
      <<Word("agents")>>, <<Word("agents"), Word("list")>>,
      <<Word("memory")>>, <<Word("memory"), Word("status")>>,
      <<Word("memory"), Word("index")>>, <<Word("memory"), Word("search")>>,
      <<Word("doctor")>>, <<Word("frobnicate")>> }

\* The tokens that may follow the command words.
RestTokens ==
    { Terminator, Flag("--help"), Flag("-V"),
      Flag("--json"), Flag("--verbose"), Flag("--deep"), Flag("--index"),
      Flag("--timeout"), FlagEq("--timeout", "5"), FlagEq("--timeout", "abc"),
      FlagEq("--timeout", "0"),
      Flag("--store"), Flag("--active"), Flag("--agent"),
      Flag("--frobnicate"),
      Word("5"), Word("abc") }

RestSeqs == UNION { [1..n -> RestTokens] : n \in 0..MaxRest }

Argvs == { <<Launcher, Program>> \o c \o r : c \in Commands, r \in RestSeqs }

(***************************************************************************)
(* Argv helpers (cli/argv.ts), as the specification describes them.        *)
(* Indices are TLA+ indices: argv[0] of the program is argv[1] here.       *)
(***************************************************************************)

\* Index of the first "--" among the arguments, or Len(argv) + 1.
TerminatorIndex(argv) ==
    LET hits == { i \in 3..Len(argv) : argv[i] = Terminator }
    IN  IF hits = {} THEN Len(argv) + 1
        ELSE CHOOSE i \in hits : \A j \in hits : i <= j

\* Index of the first token at or after from that begins with "-" (a flag
\* or the terminator), or Len(argv) + 1.
FirstDashFrom(argv, from) ==
    LET hits == { i \in from..Len(argv) : StartsWithDash(argv[i]) }
    IN  IF hits = {} THEN Len(argv) + 1
        ELSE CHOOSE i \in hits : \A j \in hits : i <= j

HelpVersionFlags == { Flag("--help"), Flag("-h"), Flag("--version"), Flag("-V") }

hasHelpOrVersion(argv) ==
    \E i \in 3..(TerminatorIndex(argv) - 1) : argv[i] \in HelpVersionFlags

\* The specification (4.1) gives the second argument as the index the path
\* starts at: the tokens from argv[offset] up to the first flag or
\* terminator.  offset counts from 0, as in the program.
getCommandPath(argv, offset) ==
    SubSeq(argv, offset + 1, FirstDashFrom(argv, offset + 1) - 1)

\* The scan not stopped at the terminator.
hasFlag_PastTerminator(argv, name) ==
    \E i \in 3..Len(argv) : argv[i] = Flag(name)

hasFlag(argv, name) ==
    \E i \in 3..(TerminatorIndex(argv) - 1) : argv[i] = Flag(name)

IsFlagOccurrence(tok, name) == tok.n = name /\ tok.k \in {"flag", "eq"}

\* A flag without a usable value reported as an absent flag.
getFlagValue_MissingAsAbsent(argv, name) ==
    LET end  == TerminatorIndex(argv) - 1
        hits == { i \in 3..end : IsFlagOccurrence(argv[i], name) }
    IN  IF hits = {} THEN Undefined
        ELSE LET i == CHOOSE h \in hits : \A j \in hits : h <= j
             IN  IF argv[i].k = "eq" THEN Str(argv[i].v)
                 ELSE IF i + 1 <= Len(argv) /\ ~StartsWithDash(argv[i + 1])
                      THEN Str(argv[i + 1].n)
                      ELSE Undefined

getFlagValue(argv, name) ==
    LET end  == TerminatorIndex(argv) - 1
        hits == { i \in 3..end : IsFlagOccurrence(argv[i], name) }
    IN  IF hits = {} THEN Undefined
        ELSE LET i == CHOOSE h \in hits : \A j \in hits : h <= j
             IN  IF argv[i].k = "eq" THEN Str(argv[i].v)
                 ELSE IF i + 1 <= Len(argv) /\ ~StartsWithDash(argv[i + 1])
                      THEN Str(argv[i + 1].n)
                      ELSE Null

\* The command path from argv[2] on, padded so that [primary, secondary] can
\* be read off it as the program's destructuring does.
PathAt(path, i) == IF i <= Len(path) THEN path[i].n ELSE ""

\* The read-only commands.  The specification names memory status as
\* read-only and agents list as not (section 8); its list of examples
\* (section 4.1) also names agents list, against section 8 and against the
\* migrateState the fast path passes for agents list.
isReadOnlyCommand(argv) ==
    LET path      == getCommandPath(argv, 2)
        primary   == PathAt(path, 1)
        secondary == PathAt(path, 2)
    IN  \/ primary \in {"health", "status", "sessions"}
        \/ primary = "memory" /\ secondary \in {"status", "search"}

\* Decimal strings of the model and the integers they denote; any other
\* string is not a number.
IntegerStrings == { "5", "0" }

IntegerOf(s) == IF s = "5" THEN 5 ELSE 0

parsePositiveIntOrUndefined(value) ==
    IF value.t # "string" THEN Undefined
    ELSE IF value.s \in IntegerStrings /\ IntegerOf(value.s) > 0
         THEN Num(IntegerOf(value.s))
         ELSE Undefined

(***************************************************************************)
(* State.                                                                  *)
(***************************************************************************)

VARIABLES
    argv,              \* process.argv
    disableRouteFirst, \* isTruthyEnvValue(process.env.CLAWDBOT_DISABLE_ROUTE_FIRST)
    routed,            \* tryRouteCli: "pending", "true", "false", "threw"
    routeLog,          \* side effects of tryRouteCli, in order
    call,              \* the handler tryRouteCli invoked, with its options
    hooked,            \* the pre-action hook has run
    hookLog,           \* side effects of the pre-action hook, in order
    command,           \* the memory command that runs: "status", "index", "search"
    opts,              \* the options the command was given
    pc,                \* where the command is: "start", "loop", "done", "thrown"
    agentIds,          \* the agents the command goes through
    next,              \* index in agentIds of the next agent
    allResults,        \* runMemoryStatus: the entries collected
    exitCode,          \* process.exitCode, 0 while unset
    out,               \* what defaultRuntime.log and .error were given, in order
    thrownBy,          \* the manager call whose error left the command, or "none"
    failures           \* the manager calls that raised, with their agent

routeVars == <<argv, disableRouteFirst, routed, routeLog, call, hooked, hookLog>>

memoryVars ==
    <<command, opts, pc, agentIds, next, allResults, exitCode, out, thrownBy, failures>>

vars == <<routeVars, memoryVars>>

NoCall == [name |-> "none"]

Banner == [ev |-> "banner"]

Config(migrateState) == [ev |-> "config", migrateState |-> migrateState]

Plugins == [ev |-> "plugins"]

Flags == [ev |-> "flags"]

SetVerbose(verbose) == [ev |-> "setVerbose", verbose |-> verbose]

Handler(name) == [ev |-> "handler", name |-> name]

Title == [ev |-> "title"]

Primary == PathAt(getCommandPath(argv, 2), 1)

Secondary == PathAt(getCommandPath(argv, 2), 2)

\* No memory command runs.
MemoryIdle ==
    /\ command = "none"
    /\ opts = [agent |-> Undefined, json |-> FALSE, deep |-> FALSE,
               index |-> FALSE, verbose |-> FALSE]
    /\ pc = "idle"
    /\ agentIds = <<>>
    /\ next = 1
    /\ allResults = <<>>
    /\ exitCode = 0
    /\ out = <<>>
    /\ thrownBy = "none"
    /\ failures = {}

Init ==
    /\ argv \in Argvs
    /\ disableRouteFirst \in BOOLEAN
    /\ routed = "pending"
    /\ routeLog = <<>>
    /\ call = NoCall
    /\ hooked = FALSE
    /\ hookLog = <<>>
    /\ MemoryIdle

(***************************************************************************)
(* tryRouteCli (cli/route.ts).  One action per return path; each appends   *)
(* the side effects of its branch in the order the code performs them.     *)
(* A handler is an external command: it completes or throws.               *)
(***************************************************************************)

Return(result, log, invoked) ==
    /\ routed' = result
    /\ routeLog' = log
    /\ call' = invoked
    /\ UNCHANGED <<argv, disableRouteFirst, hooked, hookLog, memoryVars>>

\* An error of the awaited handler swallowed: true is returned all the same.
Invoke_IgnoresFailure(log, invoked) ==
    \E completes \in BOOLEAN :
        Return("true", log,
               [name |-> invoked.name, opts |-> invoked.opts, completed |-> completes])

\* await handler(...); return true.  The awaited handler completes, or its
\* error leaves tryRouteCli.
Invoke(log, invoked) ==
    \E completes \in BOOLEAN :
        Return(IF completes THEN "true" ELSE "threw", log,
               [name |-> invoked.name, opts |-> invoked.opts, completed |-> completes])

\* Lines 17-22: the guards every fast path lies behind.
Entered ==
    /\ routed = "pending"
    /\ ~disableRouteFirst
    /\ ~hasHelpOrVersion(argv)
    /\ Primary # ""

RouteDisabled ==
    /\ routed = "pending"
    /\ disableRouteFirst
    /\ Return("false", <<>>, NoCall)

RouteHelpOrVersion ==
    /\ routed = "pending"
    /\ ~disableRouteFirst
    /\ hasHelpOrVersion(argv)
    /\ Return("false", <<>>, NoCall)

RouteNoPrimary ==
    /\ routed = "pending"
    /\ ~disableRouteFirst
    /\ ~hasHelpOrVersion(argv)
    /\ Primary = ""
    /\ Return("false", <<>>, NoCall)

\* The plugin registry loaded before configuration is ensured.
HealthSetup_PluginsFirst == <<Banner, Plugins, Config(FALSE), Flags>>

HealthSetup == <<Banner, Config(FALSE), Plugins, Flags>>

TimeoutAborts(timeout) == timeout = Null

RouteHealth ==
    /\ Entered
    /\ Primary = "health"
    /\ LET json      == hasFlag(argv, "--json")
           verbose   == hasFlag(argv, "--verbose") \/ hasFlag(argv, "--debug")
           timeout   == getFlagValue(argv, "--timeout")
           timeoutMs == parsePositiveIntOrUndefined(timeout)
       IN  IF TimeoutAborts(timeout)
           THEN Return("false", HealthSetup, NoCall)
           ELSE Invoke(HealthSetup \o <<SetVerbose(verbose), Handler("healthCommand")>>,
                       [name |-> "healthCommand",
                        opts |-> [json |-> json, timeoutMs |-> timeoutMs,
                                  verbose |-> verbose]])

StatusSetup == <<Banner, Config(FALSE), Plugins, Flags>>

RouteStatus ==
    /\ Entered
    /\ Primary # "health"
    /\ Primary = "status"
    /\ LET json      == hasFlag(argv, "--json")
           deep      == hasFlag(argv, "--deep")
           all       == hasFlag(argv, "--all")
           usage     == hasFlag(argv, "--usage")
           verbose   == hasFlag(argv, "--verbose") \/ hasFlag(argv, "--debug")
           timeout   == getFlagValue(argv, "--timeout")
           timeoutMs == parsePositiveIntOrUndefined(timeout)
       IN  IF TimeoutAborts(timeout)
           THEN Return("false", StatusSetup, NoCall)
           ELSE Invoke(StatusSetup \o <<SetVerbose(verbose), Handler("statusCommand")>>,
                       [name |-> "statusCommand",
                        opts |-> [json |-> json, deep |-> deep, all |-> all,
                                  usage |-> usage, timeoutMs |-> timeoutMs,
                                  verbose |-> verbose]])

SessionsSetup == <<Banner, Config(FALSE), Flags>>

\* The check of --active (line 63) left out.
SessionsAborts_StoreOnly(store, active) == store = Null

SessionsAborts(store, active) == store = Null \/ active = Null

RouteSessions ==
    /\ Entered
    /\ Primary \notin {"health", "status"}
    /\ Primary = "sessions"
    /\ LET json    == hasFlag(argv, "--json")
           verbose == hasFlag(argv, "--verbose")
           store   == getFlagValue(argv, "--store")
           active  == getFlagValue(argv, "--active")
       IN  IF SessionsAborts(store, active)
           THEN Return("false", SessionsSetup, NoCall)
           ELSE Invoke(SessionsSetup \o <<SetVerbose(verbose), Handler("sessionsCommand")>>,
                       [name |-> "sessionsCommand",
                        opts |-> [json |-> json, store |-> store, active |-> active]])

\* The test of the second command word left out.
IsAgentsList_PrimaryOnly(primary, secondary) == primary = "agents"

IsAgentsList(primary, secondary) == primary = "agents" /\ secondary = "list"

\* agents list given the policy of the other fast paths.
AgentsListMigrateState_Skip == FALSE

AgentsListMigrateState == TRUE

AgentsListSetup == <<Banner, Config(AgentsListMigrateState), Flags>>

RouteAgentsList ==
    /\ Entered
    /\ Primary \notin {"health", "status", "sessions"}
    /\ IsAgentsList(Primary, Secondary)
    /\ LET json     == hasFlag(argv, "--json")
           bindings == hasFlag(argv, "--bindings")
       IN  Invoke(AgentsListSetup \o <<Handler("agentsListCommand")>>,
                  [name |-> "agentsListCommand",
                   opts |-> [json |-> json, bindings |-> bindings]])

IsMemoryStatus(primary, secondary) == primary = "memory" /\ secondary = "status"

MemoryStatusSetup == <<Banner, Flags>>

AgentAborts(agent) == agent = Null

\* runMemoryStatus, lines 56-57 of cli/memory-cli.ts: what it does before it
\* reads the configuration.
RunMemoryStatusEntry(given) ==
    <<Handler("runMemoryStatus"), Config(FALSE), SetVerbose(given.verbose)>>

RouteMemoryStatus ==
    /\ Entered
    /\ Primary \notin {"health", "status", "sessions"}
    /\ ~IsAgentsList(Primary, Secondary)
    /\ IsMemoryStatus(Primary, Secondary)
    /\ LET agent   == getFlagValue(argv, "--agent")
           json    == hasFlag(argv, "--json")
           deep    == hasFlag(argv, "--deep")
           index   == hasFlag(argv, "--index")
           verbose == hasFlag(argv, "--verbose")
           given   == [agent |-> agent, json |-> json, deep |-> deep,
                       index |-> index, verbose |-> verbose]
       IN  IF AgentAborts(agent)
           THEN Return("false", MemoryStatusSetup, NoCall)
           ELSE Invoke(MemoryStatusSetup \o RunMemoryStatusEntry(given),
                       [name |-> "runMemoryStatus", opts |-> given])

RouteNoMatch ==
    /\ Entered
    /\ Primary \notin {"health", "status", "sessions"}
    /\ ~IsAgentsList(Primary, Secondary)
    /\ ~IsMemoryStatus(Primary, Secondary)
    /\ Return("false", <<>>, NoCall)

(***************************************************************************)
(* The pre-action hook (cli/program/preaction.ts), run by the command      *)
(* framework before a command body, once tryRouteCli has returned false.   *)
(***************************************************************************)

\* The negation left out.
HookMigrateState_Inverted(args) == isReadOnlyCommand(args)

HookMigrateState(args) == ~isReadOnlyCommand(args)

HookPrimary(args) == PathAt(getCommandPath(args, 1), 1)

\* The return for help and version requests (line 22) left out.
PreActionHook_NoHelpCheck ==
    /\ routed = "false"
    /\ ~hooked
    /\ hooked' = TRUE
    /\ hookLog' =
          <<Title, Banner>> \o
          ( IF HookPrimary(argv) = "doctor" THEN <<>>
            ELSE <<Config(HookMigrateState(argv))>> )
    /\ UNCHANGED <<argv, disableRouteFirst, routed, routeLog, call, memoryVars>>

PreActionHook ==
    /\ routed = "false"
    /\ ~hooked
    /\ hooked' = TRUE
    /\ hookLog' =
          <<Title, Banner>> \o
          ( IF hasHelpOrVersion(argv) THEN <<>>
            ELSE IF HookPrimary(argv) = "doctor" THEN <<>>
            ELSE <<Config(HookMigrateState(argv))>> )
    /\ UNCHANGED <<argv, disableRouteFirst, routed, routeLog, call, memoryVars>>

Next ==
    \/ RouteDisabled
    \/ RouteHelpOrVersion
    \/ RouteNoPrimary
    \/ RouteHealth
    \/ RouteStatus
    \/ RouteSessions
    \/ RouteAgentsList
    \/ RouteMemoryStatus
    \/ RouteNoMatch
    \/ PreActionHook

Spec == Init /\ [][Next]_vars

(***************************************************************************)
(* The memory commands (cli/memory-cli.ts).  The command framework hands   *)
(* the action its parsed options; the configuration and the memory manager *)
(* are external, so the agent list and the outcome of each manager call    *)
(* are inputs.                                                             *)
(***************************************************************************)

\* The ids cfg.agents.list may hold, in order.
AgentPool == <<"a1", "a2", "a3", "a4">>

AgentLists == { SubSeq(AgentPool, 1, n) : n \in 0..MaxAgents }

DefaultAgentId == "main"

\* String.prototype.trim on the strings --agent is given here.
Trim(s) == IF s = " " THEN "" ELSE s

Trimmed(agent) == IF agent.t = "string" THEN Trim(agent.s) ELSE ""

resolveAgent(agent) ==
    IF Trimmed(agent) # "" THEN Trimmed(agent) ELSE DefaultAgentId

resolveAgentIds(list, agent) ==
    IF Trimmed(agent) # "" THEN <<Trimmed(agent)>>
    ELSE IF Len(list) > 0 THEN list
    ELSE <<DefaultAgentId>>

MemoryOptions ==
    [agent : {Undefined, Str("abc"), Str(" ")},
     json : BOOLEAN, deep : BOOLEAN, index : BOOLEAN, verbose : BOOLEAN]

\* What the manager does for one agent: whether getMemorySearchManager gives
\* a manager, and for each call whether it returns (TRUE) or raises.
Outcomes ==
    [manager : BOOLEAN, probeVector : BOOLEAN,
     probeEmbedding : {"ok", "unavailable", "raises"},
     sync : BOOLEAN, status : BOOLEAN, search : BOOLEAN, close : BOOLEAN]

Log(text, agentId) == [ch |-> "log", text |-> text, agent |-> agentId]

Error(text, agentId) == [ch |-> "error", text |-> text, agent |-> agentId]

\* The result of a run callback: the call whose error left it ("none" when
\* it returned), whether it set process.exitCode = 1, what it wrote, the
\* entries it pushed to allResults, and the calls that raised in it.
Ran(threw, exit, written, pushed, raised) ==
    [threw |-> threw, exit |-> exit, written |-> written, pushed |-> pushed,
     raised |-> raised]

\* runMemoryStatus, the run callback (lines 74-122).
StatusRun(o, agentId) ==
    LET deep == opts.deep \/ opts.index
        probe ==
            IF ~o.probeVector THEN "probeVectorAvailability"
            ELSE IF deep /\ o.probeEmbedding = "raises"
                 THEN "probeEmbeddingAvailability"
                 ELSE "none"
        embeddingProbe == IF deep THEN o.probeEmbedding ELSE "undefined"
        synced     == deep /\ opts.index /\ probe = "none"
        indexError == synced /\ ~o.sync
        threw ==
            IF probe # "none" THEN probe
            ELSE IF ~o.status THEN "status"
            ELSE "none"
    IN  Ran(threw,
            indexError,
            IF indexError THEN <<Error("Memory index failed", "")>> ELSE <<>>,
            IF threw = "none"
            THEN <<[agentId |-> agentId, embeddingProbe |-> embeddingProbe,
                    indexError |-> indexError]>>
            ELSE <<>>,
            (IF indexError THEN {"sync"} ELSE {})
                \cup (IF threw # "none" THEN {threw} ELSE {}))

\* memory index, the run callback (lines 282-377): one try block around the
\* verbose header (manager.status) and manager.sync.
IndexRun(o, agentId) ==
    LET header == IF opts.verbose THEN <<Log("Memory Index", agentId), Log("", "")>>
                  ELSE <<>>
    IN  IF opts.verbose /\ ~o.status
        THEN Ran("none", TRUE,
                 <<Error("Memory index failed", agentId)>>, <<>>, {"status"})
        ELSE IF ~o.sync
        THEN Ran("none", TRUE,
                 header \o <<Error("Memory index failed", agentId)>>, <<>>, {"sync"})
        ELSE Ran("none", FALSE,
                 header \o <<Log("Memory index updated", agentId)>>, <<>>, {})

\* memory search, the run callback (lines 406-441).
SearchRun(o, agentId) ==
    IF ~o.search
    THEN Ran("none", TRUE, <<Error("Memory search failed", "")>>, <<>>,
             {"search"})
    ELSE Ran("none", FALSE, <<Log("results", "")>>, <<>>, {})

\* withManager (cli/cli-utils.ts) with the callbacks the three commands pass:
\* no manager, onMissing logs and run is skipped; otherwise run, then close
\* whether run returned or raised, a close error going to onCloseError.
WithManager(o, ran) ==
    IF ~o.manager
    THEN Ran("none", FALSE, <<Log("Memory search disabled.", "")>>, <<>>, {})
    ELSE IF o.close THEN ran
    ELSE [ran EXCEPT !.written = @ \o <<Error("Memory manager close failed", "")>>,
                     !.raised = @ \cup {"close"}]

\* The effect of one withManager call on the process.
Apply(agentId, r) ==
    /\ exitCode' = IF r.exit THEN 1 ELSE exitCode
    /\ out' = out \o r.written
    /\ allResults' = allResults \o r.pushed
    /\ failures' = failures \cup { <<op, agentId>> : op \in r.raised }
    /\ thrownBy' = r.threw

MemoryInit ==
    /\ command \in {"status", "index", "search"}
    /\ opts \in MemoryOptions
    /\ pc = "start"
    /\ agentIds = <<>>
    /\ next = 1
    /\ allResults = <<>>
    /\ exitCode = 0
    /\ out = <<>>
    /\ thrownBy = "none"
    /\ failures = {}
    /\ argv = <<Launcher, Program>>
    /\ disableRouteFirst = FALSE
    /\ routed = "false"
    /\ routeLog = <<>>
    /\ call = NoCall
    /\ hooked = TRUE
    /\ hookLog = <<>>

\* runMemoryStatus, lines 56-59.
MemoryStatusBegin ==
    /\ command = "status"
    /\ pc = "start"
    /\ \E list \in AgentLists : agentIds' = resolveAgentIds(list, opts.agent)
    /\ pc' = "loop"
    /\ UNCHANGED <<routeVars, command, opts, next, allResults, exitCode, out,
                   thrownBy, failures>>

\* One iteration of the loop of lines 67-124.  An error that leaves
\* withManager leaves runMemoryStatus and the command.
MemoryStatusAgent ==
    /\ command = "status"
    /\ pc = "loop"
    /\ next <= Len(agentIds)
    /\ \E o \in Outcomes :
          LET r == WithManager(o, StatusRun(o, agentIds[next]))
          IN  /\ Apply(agentIds[next], r)
              /\ pc' = IF r.threw = "none" THEN "loop" ELSE "thrown"
    /\ next' = next + 1
    /\ UNCHANGED <<routeVars, command, opts, agentIds>>

RECURSIVE StatusReport(_)
\* Lines 140-240: for each entry the index line (with --index), the status
\* block, and an empty line.
StatusReport(results) ==
    IF results = <<>> THEN <<>>
    ELSE LET r == Head(results)
         IN  (IF opts.index
              THEN <<Log(IF r.indexError THEN "Memory index failed"
                         ELSE "Memory index complete.", r.agentId)>>
              ELSE <<>>)
             \o <<Log(IF r.indexError THEN "Memory Search, Index error"
                      ELSE "Memory Search", r.agentId),
                  Log("", "")>>
             \o StatusReport(Tail(results))

\* runMemoryStatus, lines 126-240: the output once the loop is over.
MemoryStatusPrint ==
    /\ command = "status"
    /\ pc = "loop"
    /\ next > Len(agentIds)
    /\ out' = out \o (IF opts.json THEN <<Log("allResults as JSON", "")>>
                     ELSE StatusReport(allResults))
    /\ pc' = "done"
    /\ UNCHANGED <<routeVars, command, opts, agentIds, next, allResults, exitCode,
                   thrownBy, failures>>

\* memory index, lines 272-274.
MemoryIndexBegin ==
    /\ command = "index"
    /\ pc = "start"
    /\ \E list \in AgentLists : agentIds' = resolveAgentIds(list, opts.agent)
    /\ pc' = "loop"
    /\ UNCHANGED <<routeVars, command, opts, next, allResults, exitCode, out,
                   thrownBy, failures>>

\* One iteration of the loop of lines 275-379; the action ends with the loop.
MemoryIndexAgent ==
    /\ command = "index"
    /\ pc = "loop"
    /\ next <= Len(agentIds)
    /\ \E o \in Outcomes :
          LET r == WithManager(o, IndexRun(o, agentIds[next]))
          IN  /\ Apply(agentIds[next], r)
              /\ pc' = IF r.threw # "none" THEN "thrown"
                       ELSE IF next = Len(agentIds) THEN "done"
                       ELSE "loop"
    /\ next' = next + 1
    /\ UNCHANGED <<routeVars, command, opts, agentIds>>

\* memory search, lines 398-443.
MemorySearch ==
    /\ command = "search"
    /\ pc = "start"
    /\ agentIds' = <<resolveAgent(opts.agent)>>
    /\ \E o \in Outcomes :
          LET r == WithManager(o, SearchRun(o, resolveAgent(opts.agent)))
          IN  /\ Apply(resolveAgent(opts.agent), r)
              /\ pc' = IF r.threw = "none" THEN "done" ELSE "thrown"
    /\ next' = next + 1
    /\ UNCHANGED <<routeVars, command, opts>>

MemoryNext ==
    \/ MemoryStatusBegin
    \/ MemoryStatusAgent
    \/ MemoryStatusPrint
    \/ MemoryIndexBegin
    \/ MemoryIndexAgent
    \/ MemorySearch

SpecMemory == MemoryInit /\ [][MemoryNext]_vars

(***************************************************************************)
(* Properties of tryRouteCli and the pre-action hook, under Spec.          *)
(***************************************************************************)

Returned == routed # "pending"

NotHandled == routed \in {"pending", "false"} /\ call = NoCall

Events(log) == { log[i].ev : i \in 1..Len(log) }

ConfigCalls(log) == SelectSeq(log, LAMBDA e : e.ev = "config")

\* Every two entries of log are in the order of their ranks in order.
Rank(order, ev) == CHOOSE i \in 1..Len(order) : order[i] = ev

InOrder(log, order) ==
    /\ Events(log) \subseteq { order[i] : i \in 1..Len(order) }
    /\ \A i, j \in 1..Len(log) :
          i < j => Rank(order, log[i].ev) < Rank(order, log[j].ev)

\* A value flag of the matched fast path is present without a usable value.
ValueFlagIsNull ==
    \/ Primary \in {"health", "status"} /\ getFlagValue(argv, "--timeout") = Null
    \/ Primary = "sessions" /\ getFlagValue(argv, "--store") = Null
    \/ Primary = "sessions" /\ getFlagValue(argv, "--active") = Null
    \/ Primary = "memory" /\ Secondary = "status"
          /\ getFlagValue(argv, "--agent") = Null

\* C1: when getFlagValue returns null for a value flag of the matched fast
\* path (--timeout for health and status, --store or --active for sessions,
\* --agent for memory status), tryRouteCli returns false and no handler is
\* invoked.
C1_NullValueFallsBack ==
    ValueFlagIsNull =>
        /\ NotHandled
        /\ "handler" \notin Events(routeLog)

\* The sessions fast path was entered and gave up on --active without a value.
C1_Witness ==
    /\ routed = "false"
    /\ Primary = "sessions"
    /\ getFlagValue(argv, "--store") # Null
    /\ getFlagValue(argv, "--active") = Null
    /\ routeLog # <<>>

SupportedFlags ==
    IF Primary = "health" THEN {"--json", "--verbose", "--debug", "--timeout"}
    ELSE IF Primary = "status"
    THEN {"--json", "--deep", "--all", "--usage", "--verbose", "--debug", "--timeout"}
    ELSE IF Primary = "sessions" THEN {"--json", "--verbose", "--store", "--active"}
    ELSE IF Primary = "agents" /\ Secondary = "list" THEN {"--json", "--bindings"}
    ELSE IF Primary = "memory" /\ Secondary = "status"
    THEN {"--agent", "--json", "--deep", "--index", "--verbose"}
    ELSE {}

FastPathMatched ==
    \/ Primary \in {"health", "status", "sessions"}
    \/ Primary = "agents" /\ Secondary = "list"
    \/ Primary = "memory" /\ Secondary = "status"

HasUnsupportedFlag ==
    \E i \in 3..(TerminatorIndex(argv) - 1) :
        StartsWithDash(argv[i]) /\ argv[i].n \notin SupportedFlags

\* C3: when a token that begins with "-" and is not a supported flag of the
\* matched fast path stands before the terminator, tryRouteCli returns false
\* and invokes no handler.
C3_UnsupportedFlagFallsBack ==
    (FastPathMatched /\ HasUnsupportedFlag) => NotHandled

\* C4: on the health and status fast paths a --timeout value that is not a
\* positive integer makes tryRouteCli return false without invoking the
\* handler.
C4_BadTimeoutFallsBack ==
    LET timeout == getFlagValue(argv, "--timeout")
    IN  ( /\ Primary \in {"health", "status"}
          /\ timeout.t = "string"
          /\ timeout.s \in {"abc", "0", "-5"} ) => NotHandled

C6_BypassHasNoEffects ==
    ( \/ disableRouteFirst
      \/ hasHelpOrVersion(argv)
      \/ getCommandPath(argv, 2) = <<>>
      \/ ~FastPathMatched ) =>
        /\ routed \in {"pending", "false"}
        /\ routeLog = <<>>
        /\ call = NoCall

\* agents without list fell through with nothing done.
C6_Witness ==
    /\ routed = "false"
    /\ ~disableRouteFirst
    /\ ~hasHelpOrVersion(argv)
    /\ Primary = "agents"
    /\ Secondary # "list"
    /\ routeLog = <<>>

\* C7: every ensureConfigReady call of a fast path has migrateState true for
\* agents list and false for health, status, sessions and memory status, and
\* a fast path that reaches its handler has made exactly one such call.
C7_MigratePolicyPerPath ==
    /\ \A i \in 1..Len(routeLog) :
          routeLog[i].ev = "config" =>
              routeLog[i].migrateState = (Primary = "agents" /\ Secondary = "list")
    /\ routed \in {"true", "threw"} => Len(ConfigCalls(routeLog)) = 1

\* agents list ran on the fast path, with migration.
C7_Witness ==
    /\ routed = "true"
    /\ call.name = "agentsListCommand"
    /\ ConfigCalls(routeLog) = <<Config(TRUE)>>

IsDoctorInvocation == Len(argv) >= 3 /\ argv[3] = Word("doctor")

HelpOrVersionRequested ==
    \E i \in 3..Len(argv) :
        /\ argv[i] \in {Flag("--help"), Flag("-h"), Flag("--version"), Flag("-V")}
        /\ \A j \in 3..(i - 1) : argv[j] # Terminator

\* C11: when process.argv holds --help, -h, --version or -V before any
\* terminator, the pre-action hook sets the process title, emits the banner
\* and stops; ensureConfigReady is never called.
C11_HelpStopsHook ==
    (hooked /\ HelpOrVersionRequested) => hookLog = <<Title, Banner>>

\* The hook ran for a help request on a command that would otherwise have
\* had its configuration ensured.
C11_Witness ==
    /\ hooked
    /\ Primary = "status"
    /\ Flag("--help") \in { argv[i] : i \in 3..(TerminatorIndex(argv) - 1) }
    /\ hookLog = <<Title, Banner>>

\* argv cut just before its first terminator.
Truncated(args) == SubSeq(args, 1, TerminatorIndex(args) - 1)

\* The flag names that occur in argv, bare or with a value attached.
NamesIn(args) == { args[i].n : i \in { j \in 3..Len(args) : StartsWithDash(args[j]) } }

OccursBeforeTerminator(args, name) ==
    \E i \in 3..(TerminatorIndex(args) - 1) :
        StartsWithDash(args[i]) /\ args[i].n = name

\* hasFlag, getFlagValue and hasHelpOrVersion do not read past the
\* terminator.
FlagsInertAfterTerminator ==
    /\ \A name \in NamesIn(argv) \ {"--"} :
          /\ hasFlag(argv, name) = hasFlag(Truncated(argv), name)
          /\ getFlagValue(argv, name) = getFlagValue(Truncated(argv), name)
          /\ ~OccursBeforeTerminator(argv, name) =>
                /\ ~hasFlag(argv, name)
                /\ getFlagValue(argv, name) = Undefined
    /\ hasHelpOrVersion(argv) = hasHelpOrVersion(Truncated(argv))
    /\ (\A name \in {"--help", "-h", "--version", "-V"} :
            ~OccursBeforeTerminator(argv, name)) => ~hasHelpOrVersion(argv)

\* getCommandPath(argv, k) holds no token at or after the terminator.
PathInertAfterTerminator(k) ==
    /\ getCommandPath(argv, k) = getCommandPath(Truncated(argv), k)
    /\ getCommandPath(argv, k) # <<>> =>
          k + Len(getCommandPath(argv, k)) < TerminatorIndex(argv)

Occurrences(name) ==
    { i \in 3..Len(argv) :
        /\ StartsWithDash(argv[i])
        /\ argv[i].n = name
        /\ \A j \in 3..i : argv[j] # Terminator }

\* C13: getFlagValue(argv, name) is the value v for --x=v and for --x v with
\* v not beginning with "-", null for a bare --x that is the last token or
\* is followed by a token beginning with "-", and undefined exactly when the
\* flag stands in neither form before the terminator (the first occurrence
\* deciding).
C13_FlagValueTriState ==
    \A name \in {"--timeout", "--store", "--active", "--agent", "--json"} :
        LET occ    == Occurrences(name)
            result == getFlagValue(argv, name)
        IN  /\ (occ = {}) <=> (result = Undefined)
            /\ occ # {} =>
                  LET i == CHOOSE h \in occ : \A j \in occ : h <= j
                  IN  /\ argv[i].k = "eq" => result = Str(argv[i].v)
                      /\ (argv[i].k = "flag" /\ i < Len(argv)
                            /\ argv[i + 1].k = "word") =>
                              result = Str(argv[i + 1].n)
                      /\ (argv[i].k = "flag" /\ i = Len(argv)) => result = Null
                      /\ (argv[i].k = "flag" /\ i < Len(argv)
                            /\ argv[i + 1].k # "word") => result = Null

\* sessions ran on the fast path with the value that followed --store, and
\* with --active absent.
C13_Witness ==
    /\ routed = "true"
    /\ call.name = "sessionsCommand"
    /\ Len(argv) = 5
    /\ argv[4] = Flag("--store")
    /\ argv[5] = Word("abc")
    /\ call.opts.store = Str("abc")
    /\ call.opts.active = Undefined

HandlerCalls == SelectSeq(routeLog, LAMBDA e : e.ev = "handler")

\* The handler of the command path, "none" when no fast path matches.
HandlerOfPath ==
    IF Primary = "health" THEN "healthCommand"
    ELSE IF Primary = "status" THEN "statusCommand"
    ELSE IF Primary = "sessions" THEN "sessionsCommand"
    ELSE IF Primary = "agents" /\ Secondary = "list" THEN "agentsListCommand"
    ELSE IF Primary = "memory" /\ Secondary = "status" THEN "runMemoryStatus"
    ELSE "none"

\* C14: one call of tryRouteCli invokes at most one handler, at most once;
\* it returns true if and only if exactly one handler was invoked and
\* completed, that handler being the one of the matched command path; and
\* when it returns false neither a handler nor setVerbose has been called.
C14_OneHandlerDecidesResult ==
    /\ Len(HandlerCalls) <= 1
    /\ call = NoCall <=> HandlerCalls = <<>>
    /\ call # NoCall =>
          /\ HandlerCalls = <<Handler(call.name)>>
          /\ call.name = HandlerOfPath
          /\ Returned
    /\ routed = "true" <=> (call # NoCall /\ call.completed)
    /\ routed = "false" =>
          /\ call = NoCall
          /\ Events(routeLog) \cap {"handler", "setVerbose"} = {}

\* health ran to completion on the fast path and true was returned.
C14_Witness ==
    /\ routed = "true"
    /\ call.name = "healthCommand"
    /\ call.completed
    /\ HandlerCalls = <<Handler("healthCommand")>>

(***************************************************************************)
(* Properties of the memory commands, under SpecMemory.                    *)
(***************************************************************************)

Finished == pc \in {"done", "thrown"}

\* C9: in the loops of memory status and memory index an error raised by a
\* manager call (probeVectorAvailability, probeEmbeddingAvailability, sync,
\* status) for one agent does not leave that agent's iteration, and every
\* agent of agentIds is processed.
C9_ErrorsStayInIteration ==
    command \in {"status", "index"} =>
        /\ thrownBy = "none"
        /\ Finished => next = Len(agentIds) + 1

Printed(text, agentId) ==
    \E i \in 1..Len(out) : out[i] = Log(text, agentId)

\* C10: a failing sync, a failing search or a failing manager close sets the
\* process exit code to 1 and does not throw, and the remaining output is
\* still printed: after memory status --index, the entry of an agent whose
\* sync failed is recorded with indexError and printed.
C10_FailureSetsExitCode ==
    /\ \A f \in failures : f[1] \in {"sync", "search", "close"} => exitCode = 1
    /\ thrownBy \notin {"sync", "search", "close"}
    /\ (command = "status" /\ Finished) =>
          \A f \in failures :
              f[1] = "sync" =>
                  /\ \E i \in 1..Len(allResults) :
                        allResults[i].agentId = f[2] /\ allResults[i].indexError
                  /\ opts.json \/ Printed("Memory index failed", f[2])

====
